---- MODULE Spec2Model ----
(***************************************************************************)
(* PRINTCHECK, create_checklist.py: the preview renderer                   *)
(* (create_3d_preview and its retry loop) and the checklist assembly (the  *)
(* main loop over the sorted STL files, the worksheet it fills and the     *)
(* missing-previews banner inserted at the top of the sheet).              *)
(*                                                                         *)
(* A path is the sequence of its components below stls_dir.  A component   *)
(* is a number: k stands for the k-th name in string order, an odd number  *)
(* for an .stl file name, an even number for a directory name.             *)
(***************************************************************************)
EXTENDS Integers, Sequences, FiniteSets, TLC

\* ------------------------------------------------------------------ bounds
MaxComp ==
    3
MaxFiles ==
    3
MaxRetriesBound ==
    3
MaxNameLen ==
    6

\* ------------------------------------------------------- program constants
DefaultMaxRetries ==
    10
DefaultImageSide ==
    200
ImageRowHeight ==
    150
PlainRowHeight ==
    20

VARIABLES
    stl_files,         \* the list os.walk collected (line 75-80)
    files,             \* sorted(stl_files), the sequence the loop iterates
    idx,               \* position of the loop in files
    pc,                \* "start", "loop", "render", "row", "save", "done", "crashed";
                       \* "color" when only the colour rule is run
    current_folder,    \* last folder a header was written for; None at first
    ws,                \* the worksheet: a sequence of rows, a row a sequence of cells
    row_dimensions,    \* ws.row_dimensions: row number -> height, for the rows set
    images,            \* ws._images: sequence of [anchor, ref]
    missing_previews,  \* list of missing_info strings
    temp_dir,          \* preview file name -> what the file holds
    image_size,        \* parameter of create_3d_preview
    max_retries,       \* parameter of create_3d_preview
    retries,           \* local of create_3d_preview
    log,               \* per render attempt of the current call: "ok" or what it raised
    resolution,        \* resolution handed to scene.save_image, <<>> before any call
    result,            \* return value of the last create_3d_preview call
    processed,         \* files whose row was written, in order
    results,           \* the return value for each of them
    name_chars,        \* stl_file_path.name as its characters (colour rule only)
    face_colors        \* mesh.visual.face_colors, <<>> before it is set

vars == <<stl_files, files, idx, pc, current_folder, ws, row_dimensions, images,
          missing_previews, temp_dir, image_size, max_retries, retries, log,
          resolution, result, processed, results, name_chars, face_colors>>

colorVars == <<name_chars, face_colors>>

\* -------------------------------------------------------------------- paths
IsFileName(c) == c % 2 = 1

FileNames == {c \in 1..MaxComp : IsFileName(c)}

DirNames == {c \in 1..MaxComp : ~IsFileName(c)}

\* every *.stl path below stls_dir: in stls_dir itself or in one sub-directory
AllPaths == {<<n>> : n \in FileNames} \cup {<<d, n>> : d \in DirNames, n \in FileNames}

\* stl_path.name
Name(p) == p[Len(p)]

\* stl_path.parent.relative_to(stls_dir)
Folder(p) == SubSeq(p, 1, Len(p) - 1)

\* pathlib's ordering of paths: the lists of components compared lexicographically
RECURSIVE PathLess(_, _)
PathLess(a, b) ==
    IF a = <<>> THEN b # <<>>
    ELSE IF b = <<>> THEN FALSE
    ELSE IF a[1] # b[1] THEN a[1] < b[1]
    ELSE PathLess(Tail(a), Tail(b))

\* no comparison: the new path is put first
InsertAtFront(x, s) == <<x>> \o s

RECURSIVE Insert(_, _)
Insert(x, s) ==
    IF s = <<>> THEN <<x>>
    ELSE IF PathLess(x, s[1]) THEN <<x>> \o s
    ELSE <<s[1]>> \o Insert(x, Tail(s))

\* sorted(stl_files)
RECURSIVE Sorted(_)
Sorted(s) ==
    IF s = <<>> THEN <<>>
    ELSE Insert(s[1], Sorted(Tail(s)))

\* the orders os.walk (top-down) can produce: the files of stls_dir first,
\* the files of one directory next to each other
WalkOrder(s) ==
    /\ \A i, j \in 1..Len(s) : i # j => s[i] # s[j]
    /\ \A i, j \in 1..Len(s) : (i < j /\ Folder(s[j]) = <<>>) => Folder(s[i]) = <<>>
    /\ \A i, j, k \in 1..Len(s) :
          (i < j /\ j < k /\ Folder(s[i]) = Folder(s[k])) => Folder(s[j]) = Folder(s[i])

FileLists ==
    {s \in UNION {[1..n -> AllPaths] : n \in 0..MaxFiles} : WalkOrder(s)}

\* -------------------------------------------------------------------- cells
Text(k) == [kind |-> k, folder |-> <<>>, name |-> 0]

HeaderRow == <<Text("Filename"), Text("Preview"), Text("Checked and Available"),
               Text("Not Needed")>>

BlankCell == Text("")

PreviewMissingCell == Text("Preview Missing")

WarningCell == Text("Warning: The following STL files failed to generate a preview:")

\* f"Folder: {folder}"
FolderCell(folder) == [kind |-> "Folder", folder |-> folder, name |-> 0]

\* stl_path.name as a cell value
NameCell(p) == [kind |-> "Name", folder |-> <<>>, name |-> Name(p)]

\* f"{folder}/{stl_path.name}"
MissingInfo(p) == [kind |-> "Missing", folder |-> Folder(p), name |-> Name(p)]

None == <<0>>

NoFile == <<>>

Truncated == <<0>>

\* ---------------------------------------------------------------- worksheet
\* ws.max_row
MaxRow(w) == Len(w)

\* ws.insert_rows(1): every cell moves one row down, row 1 is left without cells
InsertRows1(w) == <<<<>>>> \o w

\* ws[f"A{r}"] = v: the cell of column A of row r is set, the other cells of
\* the row stay as they are
SetA(w, r, v) ==
    IF r <= Len(w)
    THEN [w EXCEPT ![r] = IF @ = <<>> THEN <<v>> ELSE [@ EXCEPT ![1] = v]]
    ELSE w \o [k \in 1..(r - Len(w)) |-> IF k = r - Len(w) THEN <<v>> ELSE <<>>]

\* the listing started at row 1 (enumerate with start=1)
RECURSIVE WriteMissingFromRow1(_, _, _)
WriteMissingFromRow1(w, missing, k) ==
    IF k > Len(missing) THEN w
    ELSE WriteMissingFromRow1(SetA(w, k, missing[k]), missing, k + 1)

\* for idx, missing_file in enumerate(missing_previews, start=2): ws[f"A{idx}"] = ...
RECURSIVE WriteMissing(_, _, _)
WriteMissing(w, missing, k) ==
    IF k > Len(missing) THEN w
    ELSE WriteMissing(SetA(w, k + 1, missing[k]), missing, k + 1)

\* lines 249-254: two rows inserted at the top, the warning in A1, the missing
\* files in A2, A3, ...
BannerSheet(w, missing) ==
    WriteMissing(SetA(InsertRows1(InsertRows1(w)), 1, WarningCell), missing, 1)

\* a header only for a folder that has none yet in the sheet
WithFolderHeaderOnce(w, folder, current) ==
    IF \A r \in 1..Len(w) : w[r] # <<FolderCell(folder)>>
    THEN w \o <<<<BlankCell>>, <<FolderCell(folder)>>>>
    ELSE w

\* lines 197-206: a blank row and a folder header row when the folder changes
WithFolderHeader(w, folder, current) ==
    IF folder # current
    THEN w \o <<<<BlankCell>>, <<FolderCell(folder)>>>>
    ELSE w

\* lines 214-220 and 236-242: the row of one file
FileRow(p, ok) ==
    IF ok
    THEN <<NameCell(p), BlankCell, BlankCell, BlankCell>>
    ELSE <<NameCell(p), PreviewMissingCell, BlankCell, BlankCell>>

\* the missing entry put at the front of the list
WithMissingPrepended(missing, p, ok) ==
    IF ok THEN missing ELSE <<MissingInfo(p)>> \o missing

\* the missing entry added for every file
WithMissingAlways(missing, p, ok) == Append(missing, MissingInfo(p))

\* lines 232-233: the missing list after one file
WithMissing(missing, p, ok) ==
    IF ok THEN missing ELSE Append(missing, MissingInfo(p))

\* the image added whatever create_3d_preview returned
WithImageAlways(imgs, p, ok, row) == Append(imgs, [anchor |-> row, ref |-> Name(p)])

\* lines 223-226: the image anchored in column B of the row just appended
WithImage(imgs, p, ok, row) ==
    IF ok THEN Append(imgs, [anchor |-> row, ref |-> Name(p)]) ELSE imgs

\* lines 229 and 245
RowHeight(ok) == IF ok THEN ImageRowHeight ELSE PlainRowHeight

\* temp_dir / f"{stl_path.name}.png"
PreviewPath(p) == Name(p)

\* -------------------------------------------------------- create_3d_preview
\* what a render attempt can raise; all are subclasses of Exception
Raisable == {"ZeroDivisionError", "ValueError", "OSError"}

\* where in the try block it is raised
Stages == {"load", "frame", "render", "open", "write"}

\* every error retried
HandlerRetriesAll(exc) == "retry"

\* only the ZeroDivisionError clause: any other error leaves the function
HandlerZeroDivisionOnly(exc) ==
    IF exc = "ZeroDivisionError" THEN "retry" ELSE "propagate"

\* the except clauses, in order: ZeroDivisionError, then Exception
Handler(exc) ==
    IF exc = "ZeroDivisionError" THEN "retry"
    ELSE IF exc \in Raisable THEN "return False"
    ELSE "propagate"

\* one attempt too few
LoopGuardEarly(r, m) == r + 1 < m

\* one attempt too many
LoopGuardInclusive(r, m) == r <= m

\* while retries < max_retries
LoopGuard(r, m) == r < m

\* lines 136-138: the local height, corrected when it is 0
LocalHeight(size) == IF size[2] = 0 THEN 1 ELSE size[2]

\* line 152: scene.save_image(resolution=image_size, ...)
SaveImageResolution(size) == size

CurrentFile == files[idx]

\* ------------------------------------------------------------------ actions
InitCommon ==
    /\ current_folder = None
    /\ ws = <<HeaderRow>>
    /\ row_dimensions = <<>>
    /\ images = <<>>
    /\ missing_previews = <<>>
    /\ temp_dir = [n \in FileNames |-> NoFile]
    /\ retries = 0
    /\ log = <<>>
    /\ resolution = <<>>
    /\ result = FALSE
    /\ processed = <<>>
    /\ results = <<>>

\* the script up to line 191, run with the defaults of create_3d_preview
Init ==
    /\ stl_files \in FileLists
    /\ files = <<>>
    /\ idx = 1
    /\ pc = "start"
    /\ image_size = <<DefaultImageSide, DefaultImageSide>>
    /\ max_retries = DefaultMaxRetries
    /\ name_chars = <<>>
    /\ face_colors = <<>>
    /\ InitCommon

\* line 192: sorted(stl_files)
SortFiles ==
    /\ pc = "start"
    /\ files' = Sorted(stl_files)
    /\ pc' = "loop"
    /\ UNCHANGED colorVars
    /\ UNCHANGED <<stl_files, idx, current_folder, ws, row_dimensions, images,
                   missing_previews, temp_dir, image_size, max_retries, retries,
                   log, resolution, result, processed, results>>

\* lines 192-212: the next file, its folder header, the call of create_3d_preview
BeginFile ==
    /\ pc = "loop"
    /\ idx <= Len(files)
    /\ ws' = WithFolderHeader(ws, Folder(CurrentFile), current_folder)
    /\ current_folder' = Folder(CurrentFile)
    /\ retries' = 0
    /\ log' = <<>>
    /\ pc' = "render"
    /\ UNCHANGED colorVars
    /\ UNCHANGED <<stl_files, files, idx, row_dimensions, images, missing_previews,
                   temp_dir, image_size, max_retries, resolution, result,
                   processed, results>>

\* lines 117-156: one pass of the try block that reaches return True
AttemptSucceeds ==
    /\ pc = "render"
    /\ LoopGuard(retries, max_retries)
    /\ resolution' = SaveImageResolution(image_size)
    /\ temp_dir' = [temp_dir EXCEPT ![PreviewPath(CurrentFile)] = CurrentFile]
    /\ log' = Append(log, "ok")
    /\ result' = TRUE
    /\ pc' = "row"
    /\ UNCHANGED colorVars
    /\ UNCHANGED <<stl_files, files, idx, current_folder, ws, row_dimensions,
                   images, missing_previews, image_size, max_retries, retries,
                   processed, results>>

\* lines 117-162: one pass of the try block that raises, and its handler
AttemptRaises ==
    /\ pc = "render"
    /\ LoopGuard(retries, max_retries)
    /\ \E stage \in Stages, exc \in Raisable :
          /\ resolution' = IF stage \in {"render", "open", "write"}
                           THEN SaveImageResolution(image_size)
                           ELSE resolution
          /\ temp_dir' = IF stage = "write"
                         THEN [temp_dir EXCEPT ![PreviewPath(CurrentFile)] = Truncated]
                         ELSE temp_dir
          /\ retries' = IF Handler(exc) = "retry" THEN retries + 1 ELSE retries
          /\ log' = Append(log, exc)
          /\ result' = IF Handler(exc) = "return False" THEN FALSE ELSE result
          /\ pc' = IF Handler(exc) = "retry" THEN "render"
                   ELSE IF Handler(exc) = "return False" THEN "row"
                   ELSE "crashed"
    /\ UNCHANGED colorVars
    /\ UNCHANGED <<stl_files, files, idx, current_folder, ws, row_dimensions,
                   images, missing_previews, image_size, max_retries,
                   processed, results>>

\* lines 163-165: the loop condition fails, return False
ReturnExhausted ==
    /\ pc = "render"
    /\ ~LoopGuard(retries, max_retries)
    /\ result' = FALSE
    /\ pc' = "row"
    /\ UNCHANGED colorVars
    /\ UNCHANGED <<stl_files, files, idx, current_folder, ws, row_dimensions,
                   images, missing_previews, temp_dir, image_size, max_retries,
                   retries, log, resolution, processed, results>>

\* lines 212-245: the row of the file, its image or its missing entry
EmitRow ==
    /\ pc = "row"
    /\ ws' = Append(ws, FileRow(CurrentFile, result))
    /\ images' = WithImage(images, CurrentFile, result, MaxRow(ws'))
    /\ row_dimensions' = (MaxRow(ws') :> RowHeight(result)) @@ row_dimensions
    /\ missing_previews' = WithMissing(missing_previews, CurrentFile, result)
    /\ processed' = Append(processed, CurrentFile)
    /\ results' = Append(results, result)
    /\ idx' = idx + 1
    /\ pc' = "loop"
    /\ UNCHANGED colorVars
    /\ UNCHANGED <<stl_files, files, current_folder, temp_dir, image_size,
                   max_retries, retries, log, resolution, result>>

\* lines 247-255: after the loop, the banner when previews are missing
InsertBanner ==
    /\ pc = "loop"
    /\ idx > Len(files)
    /\ ws' = IF missing_previews # <<>> THEN BannerSheet(ws, missing_previews) ELSE ws
    /\ pc' = "save"
    /\ UNCHANGED colorVars
    /\ UNCHANGED <<stl_files, files, idx, current_folder, row_dimensions, images,
                   missing_previews, temp_dir, image_size, max_retries, retries,
                   log, resolution, result, processed, results>>

\* lines 257-259: wb.save, the document is handed to the writer
Save ==
    /\ pc = "save"
    /\ pc' = "done"
    /\ UNCHANGED colorVars
    /\ UNCHANGED <<stl_files, files, idx, current_folder, ws, row_dimensions,
                   images, missing_previews, temp_dir, image_size, max_retries,
                   retries, log, resolution, result, processed, results>>

Next ==
    \/ SortFiles
    \/ BeginFile
    \/ AttemptSucceeds
    \/ AttemptRaises
    \/ ReturnExhausted
    \/ EmitRow
    \/ InsertBanner
    \/ Save

Spec == Init /\ [][Next]_vars

\* the script runs to its end: no step waits for anything
FairSpec == Spec /\ WF_vars(Next)

\* ------------------------------------------ create_3d_preview on its own
Sides == {0, 1, DefaultImageSide}

\* one call create_3d_preview(p, preview_path, image_size, max_retries)
InitPreview ==
    /\ \E p \in AllPaths : stl_files = <<p>> /\ files = <<p>>
    /\ idx = 1
    /\ pc = "render"
    /\ image_size \in (Sides \ {0}) \X Sides
    /\ max_retries \in 0..MaxRetriesBound
    /\ name_chars = <<>>
    /\ face_colors = <<>>
    /\ InitCommon

NextPreview ==
    \/ AttemptSucceeds
    \/ AttemptRaises
    \/ ReturnExhausted

SpecPreview == InitPreview /\ [][NextPreview]_vars

FairSpecPreview == SpecPreview /\ WF_vars(NextPreview)

\* ------------------------------------------------- the colour of a file
\* the characters a name is made of here: the brackets and the two marker
\* letters in both cases
Chars == {"[", "]", "a", "A", "c", "C"}

NameStrings == UNION {[1..n -> Chars] : n \in 0..MaxNameLen}

\* str.lower() on one character
LowerChar(ch) == IF ch = "A" THEN "a" ELSE IF ch = "C" THEN "c" ELSE ch

\* stl_file_path.name.lower()
Lower(s) == [k \in 1..Len(s) |-> LowerChar(s[k])]

\* pat in s
Contains(pat, s) ==
    \E k \in 1..(Len(s) - Len(pat) + 1) : SubSeq(s, k, k + Len(pat) - 1) = pat

Red == <<180, 0, 0, 255>>

White == <<255, 255, 255, 255>>

DarkGray == <<50, 50, 50, 255>>

\* the '[c]' test made first
FaceColorsCFirst(name) ==
    IF Contains(<<"[", "c", "]">>, Lower(name)) THEN White
    ELSE IF Contains(<<"[", "a", "]">>, Lower(name)) THEN Red
    ELSE DarkGray

\* lines 122-128: the colour rule
FaceColors(name) ==
    IF Contains(<<"[", "a", "]">>, Lower(name)) THEN Red
    ELSE IF Contains(<<"[", "c", "]">>, Lower(name)) THEN White
    ELSE DarkGray

\* the colour rule on its own, for one file name
InitColor ==
    /\ stl_files = <<>>
    /\ files = <<>>
    /\ idx = 1
    /\ pc = "color"
    /\ image_size = <<DefaultImageSide, DefaultImageSide>>
    /\ max_retries = DefaultMaxRetries
    /\ name_chars \in NameStrings
    /\ face_colors = <<>>
    /\ InitCommon

\* lines 122-128 in one render attempt
ApplyColor ==
    /\ face_colors = <<>>
    /\ face_colors' = FaceColors(name_chars)
    /\ UNCHANGED <<stl_files, files, idx, pc, current_folder, ws, row_dimensions,
                   images, missing_previews, temp_dir, image_size, max_retries,
                   retries, log, resolution, result, processed, results,
                   name_chars>>

NextColor == ApplyColor

SpecColor == InitColor /\ [][NextColor]_vars

\* ------------------------------------------------------------ the claims
Range(s) == {s[k] : k \in 1..Len(s)}

\* the error taxonomy: the transient error is ZeroDivisionError, every other
\* error is fatal
Transient(e) == e = "ZeroDivisionError"

Fatal(e) == e \in Raisable /\ ~Transient(e)

HasA(w, r, v) == r <= Len(w) /\ Len(w[r]) >= 1 /\ w[r][1] = v

AfterBanner == pc \in {"save", "done"}

LoopFinished == pc = "loop" /\ idx > Len(files)

BeforeBanner == pc \in {"start", "loop", "render", "row"}

Failures == {k \in 1..Len(results) : ~results[k]}

BannerCells(w) ==
    {<<r, c>> \in (1..Len(w)) \X (1..4) :
        c <= Len(w[r]) /\ (w[r][c] = WarningCell \/ w[r][c].kind = "Missing")}

\* C1: once the banner step has run, a non-empty missing list puts the warning
\* in row 1 and the missing records, in append order, in column A of the next
\* len(missing) rows, and nowhere else; an empty missing list leaves the sheet
\* without any banner cell.
C1_BannerRows ==
    AfterBanner =>
        IF missing_previews # <<>>
        THEN /\ ws[1] = <<WarningCell>>
             /\ \A k \in 1..Len(missing_previews) : HasA(ws, k + 1, missing_previews[k])
             /\ BannerCells(ws) = {<<r, 1>> : r \in 1..(1 + Len(missing_previews))}
        ELSE BannerCells(ws) = {}

C1_Witness ==
    /\ pc = "done"
    /\ Len(missing_previews) >= 2
    /\ \E k \in 1..Len(results) : results[k]

\* C2: the banner step only prepends: the sheet after it is 1 + n new rows
\* followed by the sheet before it, unchanged.
C2_BannerOnlyPrepends ==
    [][(pc = "loop" /\ pc' = "save" /\ missing_previews # <<>>)
        => /\ Len(ws') = Len(ws) + 1 + Len(missing_previews)
           /\ SubSeq(ws', 2 + Len(missing_previews), Len(ws')) = ws]_vars

FolderHeaderRows(w, folder) == {r \in 1..Len(w) : HasA(w, r, FolderCell(folder))}

\* C3: no relative folder has more than one folder header in the sheet, and
\* when the loop has finished every folder of the collection has exactly one.
C3_OneHeaderPerFolder ==
    \A p \in Range(stl_files) :
        /\ Cardinality(FolderHeaderRows(ws, Folder(p))) <= 1
        /\ LoopFinished => Cardinality(FolderHeaderRows(ws, Folder(p))) = 1

Returned == pc = "row"

AllTransient == \A k \in 1..Len(log) : Transient(log[k])

C4_Bound ==
    /\ Len(log) <= max_retries
    /\ (Returned /\ AllTransient) => (~result /\ Len(log) = max_retries)
    /\ Returned =>
          \/ log # <<>> /\ log[Len(log)] = "ok" /\ result
          \/ log # <<>> /\ Fatal(log[Len(log)]) /\ ~result
          \/ AllTransient /\ Len(log) = max_retries /\ ~result

\* C4: one call makes at most max_retries render attempts; when every attempt
\* raises ZeroDivisionError it returns False after exactly max_retries
\* attempts; it returns only on success, on a fatal error or with the budget
\* used up; and it always returns.
C4_RetryLoop == [](C4_Bound) /\ <>Returned

C4_Witness ==
    /\ Returned
    /\ AllTransient
    /\ max_retries = MaxRetriesBound
    /\ Len(log) = max_retries
    /\ ~result

\* C5: a fatal error is the last attempt of its call: the call has returned
\* False and nothing was attempted after it.
C5_FatalReturnsAtOnce ==
    \A k \in 1..Len(log) :
        Fatal(log[k]) => (k = Len(log) /\ pc # "render" /\ ~result)

C5_Witness ==
    /\ Returned
    /\ Len(log) = 2
    /\ Transient(log[1])
    /\ Fatal(log[2])
    /\ Len(log) < max_retries

\* C6: whatever the attempts raise, the call ends by returning True or False:
\* no error leaves create_3d_preview, and True is returned exactly when the
\* last attempt succeeded.
C6_NoErrorEscapes ==
    /\ pc # "crashed"
    /\ Returned =>
          /\ result \in BOOLEAN
          /\ result <=> (log # <<>> /\ log[Len(log)] = "ok")

C6_Witness ==
    /\ Returned
    /\ ~result
    /\ \E j, k \in 1..Len(log) : Transient(log[j]) /\ Fatal(log[k])

IsSortedPaths(s) == \A i, j \in 1..Len(s) : i < j => PathLess(s[i], s[j])

C7_Done ==
    pc = "done" =>
        /\ Len(processed) = Len(stl_files)
        /\ Range(processed) = Range(stl_files)
        /\ IsSortedPaths(processed)

\* C7: whatever the render outcomes, the run reaches wb.save, having written
\* the row of every file of the collection, in sorted order.
C7_RunCompletes == [](C7_Done) /\ <>(pc = "done")

C7_Witness ==
    /\ pc = "done"
    /\ Len(processed) = MaxFiles
    /\ \E j, k \in 1..Len(results) : results[j] /\ ~results[k]
    /\ Len(missing_previews) >= 2

NameRows(w) == {r \in 1..Len(w) : Len(w[r]) = 4 /\ w[r][1].kind = "Name"}

\* C8: the loop writes one file row per file processed, so len(files) rows
\* when it has finished, and the missing list has one entry per file for which
\* create_3d_preview returned False.
C8_Counts ==
    /\ BeforeBanner => Cardinality(NameRows(ws)) = Len(processed)
    /\ LoopFinished =>
          /\ Len(processed) = Len(stl_files)
          /\ Cardinality(NameRows(ws)) = Len(stl_files)
    /\ Len(missing_previews) = Cardinality(Failures)

C8_Witness ==
    /\ LoopFinished
    /\ Len(stl_files) = MaxFiles
    /\ Cardinality(Failures) = 1

\* the rows of the files, top to bottom
RECURSIVE NameRowsUpTo(_, _)
NameRowsUpTo(w, n) ==
    IF n = 0 THEN <<>>
    ELSE IF n \in NameRows(w) THEN Append(NameRowsUpTo(w, n - 1), n)
    ELSE NameRowsUpTo(w, n - 1)

ImagesAt(r) == {i \in 1..Len(images) : images[i].anchor = r}

RecordsOf(p) == {i \in 1..Len(missing_previews) : missing_previews[i] = MissingInfo(p)}

\* C9: in the sheet the loop assembles, the k-th file row belongs to the k-th
\* file processed; a file whose call returned False has "Preview Missing" in
\* it, no image and exactly one missing record; a file whose call returned
\* True has an empty preview cell with exactly one image anchored on the row
\* and no missing record; every missing record is that of a failed file.
C9_OneConsequence ==
    BeforeBanner =>
        LET rows == NameRowsUpTo(ws, Len(ws)) IN
        /\ Len(rows) = Len(processed)
        /\ \A k \in 1..Len(processed) :
              LET p == processed[k]
                  r == rows[k]
              IN /\ ws[r][1] = NameCell(p)
                 /\ IF results[k]
                    THEN /\ ws[r][2] = BlankCell
                         /\ Cardinality(ImagesAt(r)) = 1
                         /\ \A i \in ImagesAt(r) : images[i].ref = PreviewPath(p)
                         /\ RecordsOf(p) = {}
                    ELSE /\ ws[r][2] = PreviewMissingCell
                         /\ ImagesAt(r) = {}
                         /\ Cardinality(RecordsOf(p)) = 1
        /\ \A i \in 1..Len(missing_previews) :
              \E k \in Failures : missing_previews[i] = MissingInfo(processed[k])

C9_Witness ==
    /\ LoopFinished
    /\ Len(processed) >= 2
    /\ \E j, k \in 1..Len(results) :
          /\ results[j] /\ ~results[k]
          /\ Name(processed[j]) = Name(processed[k])

\* C10: the resolution handed to scene.save_image never has height 0.
C10_HeightNeverZero ==
    resolution # <<>> => resolution[2] # 0

\* a marker: '[', the letter in either case, ']'
HasMarker(s, letters) ==
    \E k \in 1..(Len(s) - 2) : s[k] = "[" /\ s[k + 1] \in letters /\ s[k + 2] = "]"

\* C11: the colour is set for every name, and it is red when the name has an
\* '[a]' marker in either case (also next to a '[c]' marker), white when it has
\* a '[c]' marker and no '[a]' marker, dark gray otherwise.
C11_ColorRule ==
    face_colors # <<>> =>
        /\ face_colors \in {Red, White, DarkGray}
        /\ HasMarker(name_chars, {"a", "A"}) => face_colors = Red
        /\ (HasMarker(name_chars, {"c", "C"}) /\ ~HasMarker(name_chars, {"a", "A"}))
              => face_colors = White
        /\ (~HasMarker(name_chars, {"c", "C"}) /\ ~HasMarker(name_chars, {"a", "A"}))
              => face_colors = DarkGray

C11_Witness ==
    /\ name_chars = <<"[", "C", "]", "[", "A", "]">>
    /\ face_colors = Red

\* the files whose folder header step has run
StartedFiles ==
    IF pc \in {"render", "row"} THEN SubSeq(files, 1, idx) ELSE processed

\* the folders at which the folder changes along fs[1..n], the first included
RECURSIVE TransitionsUpTo(_, _)
TransitionsUpTo(fs, n) ==
    IF n = 0 THEN <<>>
    ELSE IF n = 1 \/ Folder(fs[n]) # Folder(fs[n - 1])
         THEN Append(TransitionsUpTo(fs, n - 1), Folder(fs[n]))
         ELSE TransitionsUpTo(fs, n - 1)

IsHeaderRow(w, r) == Len(w[r]) = 1 /\ w[r][1].kind = "Folder"

\* the folders of the header rows of w[1..n], top to bottom
RECURSIVE HeadersUpTo(_, _)
HeadersUpTo(w, n) ==
    IF n = 0 THEN <<>>
    ELSE IF IsHeaderRow(w, n) THEN Append(HeadersUpTo(w, n - 1), w[n][1].folder)
    ELSE HeadersUpTo(w, n - 1)

\* C12: in the sheet the loop assembles, the folder headers are, in order, the
\* folder transitions of the sorted files handled so far; every header has the
\* blank spacer row right above it and the row of the file that caused it
\* right below it, and there is no other spacer.
C12_HeadersFollowTransitions ==
    BeforeBanner =>
        /\ HeadersUpTo(ws, Len(ws)) = TransitionsUpTo(StartedFiles, Len(StartedFiles))
        /\ IsSortedPaths(StartedFiles)
        /\ \A r \in 1..Len(ws) :
              /\ IsHeaderRow(ws, r) =>
                    /\ r > 1 /\ ws[r - 1] = <<BlankCell>>
                    /\ r < Len(ws) => r + 1 \in NameRows(ws)
              /\ ws[r] = <<BlankCell>> => (r < Len(ws) /\ IsHeaderRow(ws, r + 1))
              /\ (r \in NameRows(ws) /\ r < Len(ws) /\ r + 1 \in NameRows(ws)) =>
                    \E k \in 1..(Len(StartedFiles) - 1) :
                        /\ ws[r][1] = NameCell(StartedFiles[k])
                        /\ ws[r + 1][1] = NameCell(StartedFiles[k + 1])
                        /\ Folder(StartedFiles[k]) = Folder(StartedFiles[k + 1])

C12_Witness ==
    /\ LoopFinished
    /\ Len(HeadersUpTo(ws, Len(ws))) = 2
    /\ Len(processed) = 3
    /\ Folder(processed[2]) = Folder(processed[3])

\* C13: in the final document every file row carries its own height hint and
\* its own image: 20 and no image on a "Preview Missing" row, 150 and exactly
\* one image anchored on the row otherwise.
C13_HeightAndImageOnOwnRow ==
    AfterBanner =>
        \A r \in NameRows(ws) :
            /\ r \in DOMAIN row_dimensions
            /\ IF ws[r][2] = PreviewMissingCell
               THEN row_dimensions[r] = PlainRowHeight /\ ImagesAt(r) = {}
               ELSE row_dimensions[r] = ImageRowHeight /\ Cardinality(ImagesAt(r)) = 1

\* what wb.save embeds for image i: the content of the file its ref names
EmbeddedImage(i) == temp_dir[images[i].ref]

\* C14: when every file rendered successfully, the image of each row is the
\* rendering of that row's own file.
C14_OwnImage ==
    (pc = "done" /\ \A k \in 1..Len(results) : results[k]) =>
        /\ Len(images) = Len(processed)
        /\ \A i \in 1..Len(images) : EmbeddedImage(i) = processed[i]

\* the missing records of the failed files among fs[1..n], in order
RECURSIVE FailedUpTo(_, _, _)
FailedUpTo(fs, rs, n) ==
    IF n = 0 THEN <<>>
    ELSE IF rs[n] THEN FailedUpTo(fs, rs, n - 1)
    ELSE Append(FailedUpTo(fs, rs, n - 1), MissingInfo(fs[n]))

\* the names on the "Preview Missing" rows of w[1..n], top to bottom
RECURSIVE MissingRowNamesUpTo(_, _)
MissingRowNamesUpTo(w, n) ==
    IF n = 0 THEN <<>>
    ELSE IF n \in NameRows(w) /\ w[n][2] = PreviewMissingCell
         THEN Append(MissingRowNamesUpTo(w, n - 1), w[n][1].name)
         ELSE MissingRowNamesUpTo(w, n - 1)

\* C15: missing_previews is the list of the failed files in the order they
\* were processed, which is sorted order; the "Preview Missing" rows of the
\* assembled sheet come in that order, and so does the banner's listing.
C15_MissingOrder ==
    /\ missing_previews = FailedUpTo(processed, results, Len(processed))
    /\ IsSortedPaths(processed)
    /\ BeforeBanner =>
          MissingRowNamesUpTo(ws, Len(ws))
              = [i \in 1..Len(missing_previews) |-> missing_previews[i].name]
    /\ AfterBanner =>
          \A i \in 1..Len(missing_previews) : HasA(ws, i + 1, missing_previews[i])

C15_Witness ==
    /\ pc = "done"
    /\ results = <<FALSE, TRUE, FALSE>>

\* every ordering of the same collection
Orderings(s) ==
    {t \in [1..Len(s) -> Range(s)] : \A i, j \in 1..Len(s) : i # j => t[i] # t[j]}

\* lines 192-245 as a fold: the sheet and the missing list after fs[1..n] with
\* the return values rs
RECURSIVE AssembledUpTo(_, _, _)
AssembledUpTo(fs, rs, n) ==
    IF n = 0 THEN [sheet |-> <<HeaderRow>>, missing |-> <<>>]
    ELSE LET prev == AssembledUpTo(fs, rs, n - 1)
             cur == IF n = 1 THEN None ELSE Folder(fs[n - 1])
         IN [sheet |-> Append(WithFolderHeader(prev.sheet, Folder(fs[n]), cur),
                              FileRow(fs[n], rs[n])),
             missing |-> WithMissing(prev.missing, fs[n], rs[n])]

\* lines 192-255: the final sheet and missing list for the list s as collected
DocumentOf(s, rs) ==
    LET a == AssembledUpTo(Sorted(s), rs, Len(s))
    IN [sheet |-> IF a.missing # <<>> THEN BannerSheet(a.sheet, a.missing)
                  ELSE a.sheet,
        missing |-> a.missing]

\* C16: the final sheet and the missing list are those of every ordering of
\* the collected files, given the same return value for each file.
C16_OrderIndependent ==
    pc = "done" =>
        \A t \in Orderings(stl_files) :
            /\ Sorted(t) = files
            /\ DocumentOf(t, results) = [sheet |-> ws, missing |-> missing_previews]

C16_Witness ==
    /\ pc = "done"
    /\ Len(stl_files) = MaxFiles
    /\ stl_files # files
    /\ \E j, k \in 1..Len(results) : results[j] /\ ~results[k]

\* C17: as long as only transient errors were raised and fewer than
\* max_retries of them, the next attempt is made; a success after k transient
\* errors returns True after k + 1 attempts, and the row then written carries
\* the image and adds no missing record.
C17_RetryThenSuccess ==
    /\ pc = "render" => (AllTransient /\ retries = Len(log))
    /\ (pc = "render" /\ Len(log) < max_retries) => ENABLED AttemptSucceeds
    /\ (pc # "render" /\ log # <<>> /\ log[Len(log)] = "ok") =>
          /\ result
          /\ Len(log) <= max_retries
          /\ \A k \in 1..(Len(log) - 1) : Transient(log[k])
    /\ (pc = "loop" /\ log # <<>> /\ log[Len(log)] = "ok") =>
          /\ results[Len(results)]
          /\ Len(ws[Len(ws)]) = 4
          /\ ws[Len(ws)][1] = NameCell(processed[Len(processed)])
          /\ ws[Len(ws)][2] = BlankCell
          /\ Cardinality(ImagesAt(Len(ws))) = 1
          /\ RecordsOf(processed[Len(processed)]) = {}

C17_Witness ==
    /\ pc = "loop"
    /\ processed # <<>>
    /\ Len(log) = max_retries
    /\ log[Len(log)] = "ok"
    /\ Len(log) >= 2

\* C18: in the sheet the loop assembles, the nearest folder header above the
\* row of a file is the header of that file's folder.
C18_RowUnderOwnFolder ==
    BeforeBanner =>
        LET rows == NameRowsUpTo(ws, Len(ws)) IN
        \A k \in 1..Len(processed) :
            \E h \in 1..(rows[k] - 1) :
                /\ ws[h] = <<FolderCell(Folder(processed[k]))>>
                /\ \A g \in (h + 1)..(rows[k] - 1) : ~IsHeaderRow(ws, g)

C18_Witness ==
    /\ LoopFinished
    /\ Len(processed) = 3
    /\ Folder(processed[1]) = Folder(processed[3])
    /\ Folder(processed[1]) # Folder(processed[2])
    /\ ~results[3]

====
